---- MODULE Spec2Model ----
(***************************************************************************)
(* Model of GitpodTaskContribution (gitpod-task-contribution.ts): the      *)
(* binding table taskTerminals, the per-terminal guard installed by        *)
(* onWillCreateWidget (start wrapper, attachToTask, update, applyTask),    *)
(* the promise chain updateQueue and onDidInitializeLayout.                *)
(*                                                                         *)
(* JavaScript runs every handler to completion, so each action below is    *)
(* one synchronous run of a handler or of a continuation after an await.   *)
(* Strings that the code takes apart (task and terminal ids) are sequences *)
(* of one-character strings.                                               *)
(***************************************************************************)
EXTENDS Integers, Sequences, FiniteSets, TLC

VARIABLES
    widgets,                 \* every terminal widget ever created, in creation order
    taskTerminals,           \* Map<string, GitpodTaskTerminalWidget>: terminal id -> widget index, 0 = no entry
    pendingInitialTasks,     \* Deferred<GitpodTask[]>: [resolved, value]
    pendingInitializeLayout, \* Deferred<void>: TRUE once resolved
    updateQueue,             \* the callbacks chained on updateQueue that have not run yet
    nDelivered,              \* number of onDidChange notifications received
    nSettled,                \* number of chained update promises that have settled
    lastApplied,             \* arrival number of the batch applied most recently, 0 = none
    layout,                  \* the activation of onDidInitializeLayout: [pc, tasks, idx, ref, errors]
    nFailures,               \* open failures reported so far
    effects,                 \* what the handlers run by the latest step did: calls, throws, early returns
    presentationOf,          \* the presentation the task source reports for each task id
    idIn, idTerm, idOut      \* scratch of the identifier helpers: task id, terminal id, extracted id

vars == <<widgets, taskTerminals, pendingInitialTasks, pendingInitializeLayout,
          updateQueue, nDelivered, nSettled, lastApplied, layout, nFailures, effects, presentationOf,
          idIn, idTerm, idOut>>

coreVars == <<widgets, taskTerminals, pendingInitialTasks, pendingInitializeLayout,
              updateQueue, nDelivered, nSettled, lastApplied, layout, nFailures, effects,
              presentationOf>>

idVars == <<idIn, idTerm, idOut>>

-----------------------------------------------------------------------------
(* Bounds of the model *)

\* onDidChange notifications delivered in one run
MaxSnapshots == 2
\* terminal widgets created by somebody else than onDidInitializeLayout
MaxExternal == 1
\* open failures the terminal backend reports in one run
MaxFailures == 1
\* length of the task ids drawn for the identifier helpers
MaxIdLen == 3

-----------------------------------------------------------------------------
(* Values *)

TaskIds == {<<"a">>, <<"b">>}

\* a falsy task.terminal (undefined) is the empty string
NoRemote == ""

\* task.presentation, absent or { name, openIn?, openMode? }
NoPresentation == [present |-> FALSE, openIn |-> "", openMode |-> ""]

Presentations ==
    { NoPresentation,
      [present |-> TRUE, openIn |-> "", openMode |-> ""],
      [present |-> TRUE, openIn |-> "right", openMode |-> "split-right"] }

\* the (state, terminal) pairs a task is reported with; GitpodTaskState is
\* RUNNING ("running"), CLOSED ("closed") or a state that is neither ("opening")
Reports ==
    { [state |-> "opening", terminal |-> NoRemote],
      [state |-> "running", terminal |-> NoRemote],
      [state |-> "running", terminal |-> "r1"],
      [state |-> "running", terminal |-> "r2"],
      [state |-> "closed",  terminal |-> NoRemote],
      [state |-> "closed",  terminal |-> "r1"] }

\* `let task: GitpodTask | undefined` before the first applyTask
NoTask == [id |-> <<>>, state |-> "undefined", terminal |-> NoRemote,
           presentation |-> NoPresentation]

Task(id, rep) == [id |-> id, state |-> rep.state, terminal |-> rep.terminal,
                  presentation |-> presentationOf[id]]

\* the tasks of the workspace: the domain of presentationOf
Known == DOMAIN presentationOf

\* the task lists onDidChange is called with in a workspace of one task
Snapshots ==
    {<<>>} \cup { <<Task(i, r)>> : i \in Known, r \in Reports }

\* the task lists of a workspace of two tasks: the full list, in the workspace's
\* order, the second task with a remote terminal once it runs
FullSnapshots ==
    {<<>>}
    \cup { <<Task(<<"a">>, r1), Task(<<"b">>, r2)>> :
             r1 \in Reports,
             r2 \in { r \in Reports : r.terminal = "r1" \/ r.state = "opening" } }

\* a workspace of one task, with any presentation
OneTask == [{<<"a">>} -> Presentations]

\* a workspace of two tasks: any presentation for the first, the defaults for
\* the second
TwoTasks ==
    { [i \in TaskIds |-> IF i = <<"a">> THEN p
                         ELSE [present |-> TRUE, openIn |-> "", openMode |-> ""]] :
      p \in Presentations }

\* TerminalWidget.terminalId before the backend terminal exists
InvalidId == -1

\* IBaseTerminalServer.validateId
validateId(terminalId) == terminalId # InvalidId

-----------------------------------------------------------------------------
(* GitpodTaskTerminalWidget namespace *)

idPrefix == <<"g","i","t","p","o","d","-","t","a","s","k","-",
              "t","e","r","m","i","n","a","l">>

RECURSIVE SplitFrom(_, _, _)
\* String.prototype.split(sep) on a sequence of characters: cur is the piece
\* being collected, s what is still to be read
SplitFrom(s, sep, cur) ==
    IF s = <<>> THEN <<cur>>
    ELSE IF Head(s) = sep THEN <<cur>> \o SplitFrom(Tail(s), sep, <<>>)
    ELSE SplitFrom(Tail(s), sep, Append(cur, Head(s)))

split(s, sep) == SplitFrom(s, sep, <<>>)

\* the value of an array index past the end
Undefined == <<"undefined">>

\* the prefix and the id joined without the separator
toTerminalIdNoSeparator(id) == idPrefix \o id

\* idPrefix + ':' + id
toTerminalId(id) == idPrefix \o <<":">> \o id

\* terminal.id.split(':')[1]
getTaskId(terminal) ==
    LET parts == split(terminal.id, ":")
    IN  IF Len(parts) >= 2 THEN parts[2] ELSE Undefined

TerminalIds == { toTerminalId(i) : i \in TaskIds }

is(terminal) == terminal.kind = "gitpod-task"

-----------------------------------------------------------------------------
(* Terminal widgets *)

NewWidget(id, kind) ==
    [ id |-> id, kind |-> kind,
      disposed |-> FALSE,
      terminalId |-> InvalidId,
      starting |-> FALSE,          \* let starting
      attachingToTask |-> FALSE,   \* let attachingToTask
      task |-> NoTask,             \* let task
      restored |-> FALSE,          \* start() was called from outside this file
      missed |-> FALSE,            \* update found a RUNNING task while a flag was set
      startInFlight |-> 0,         \* calls of the original start not yet signalled
      attachInFlight |-> 0,        \* server.attach requests not yet answered
      closeInFlight |-> 0,         \* fetches of .../terminal/close/ not yet answered
      origin |-> "external",       \* who asked for the widget
      area |-> "", mode |-> "", ref |-> 0,  \* placement by activateTerminal
      started |-> FALSE, opened |-> FALSE ] \* default terminal: start(), open()

NoParams == [terminalId |-> InvalidId, remoteTerminal |-> NoRemote]

\* one thing a handler did to widget w: did is "start" or "attach" (the call was
\* passed on), "dispose", "throw" (the already-in-progress error), "busy" or
\* "idle" (update returned early), "closeNotify", or what happened to it:
\* "opened", "openFailed", "startRejected", "attachResolved", "attachRejected",
\* "closeNotified", "closeNotifyFailed"
Effect(w, did, params) == [w |-> w, did |-> did, params |-> params]

Store(ws, tt, ev) == [widgets |-> ws, taskTerminals |-> tt, effects |-> ev]

\* terminal.onDidDispose(() => this.taskTerminals.delete(terminal.id))
onDidDispose(tt, terminal) ==
    IF is(terminal) THEN [tt EXCEPT ![terminal.id] = 0] ELSE tt

\* terminal.dispose(): the first call disposes the widget and fires
\* onDidDispose, a call on a disposed widget does nothing
dispose(st, w) ==
    LET t == st.widgets[w]
    IN  IF t.disposed THEN st
        ELSE Store([st.widgets EXCEPT ![w].disposed = TRUE],
                   onDidDispose(st.taskTerminals, t), st.effects)

\* widgetManager.onWillCreateWidget handler: a created widget is appended and,
\* when it is a task terminal, recorded under its id
onWillCreateWidget(st, terminal) ==
    LET w == Len(st.widgets) + 1
    IN  Store(Append(st.widgets, terminal),
              IF is(terminal) THEN [st.taskTerminals EXCEPT ![terminal.id] = w]
              ELSE st.taskTerminals,
              st.effects)

\* the wrapper without its check of starting
startUnguarded(st, w) ==
    [st EXCEPT !.widgets[w].starting = TRUE,
               !.widgets[w].startInFlight = @ + 1,
               !.widgets[w].missed = FALSE,
               !.effects = @ \cup {Effect(w, "start", NoParams)}]

\* the wrapper without `starting = true`
startNoFlag(st, w) ==
    IF st.widgets[w].starting
    THEN [st EXCEPT !.effects = @ \cup {Effect(w, "throw", NoParams)}]
    ELSE [st EXCEPT !.widgets[w].startInFlight = @ + 1,
                    !.widgets[w].missed = FALSE,
                    !.effects = @ \cup {Effect(w, "start", NoParams)}]

\* terminal['start'] = id => { if (starting) throw ...; starting = true; return start(id) }
start(st, w) ==
    IF st.widgets[w].starting
    THEN [st EXCEPT !.effects = @ \cup {Effect(w, "throw", NoParams)}]
    ELSE [st EXCEPT !.widgets[w].starting = TRUE,
                    !.widgets[w].startInFlight = @ + 1,
                    !.widgets[w].missed = FALSE,
                    !.effects = @ \cup {Effect(w, "start", NoParams)}]

\* attachToTask(params): throws when attaching, else sends server.attach(params)
attachToTask(st, w, params) ==
    IF st.widgets[w].attachingToTask
    THEN [st EXCEPT !.effects = @ \cup {Effect(w, "throw", NoParams)}]
    ELSE [st EXCEPT !.widgets[w].attachingToTask = TRUE,
                    !.widgets[w].attachInFlight = @ + 1,
                    !.widgets[w].missed = FALSE,
                    !.effects = @ \cup {Effect(w, "attach", params)}]

\* the early return without the check of remoteTerminal
updateReturnsAnyTerminal(t) ==
    \/ t.task.state # "running"
    \/ t.starting
    \/ t.attachingToTask

\* the early return of update: task?.state !== RUNNING || !remoteTerminal ||
\* starting || attachingToTask
updateReturns(t) ==
    \/ t.task.state # "running"
    \/ t.task.terminal = NoRemote
    \/ t.starting
    \/ t.attachingToTask

\* const update = () => { ... }
update(st, w) ==
    LET t == st.widgets[w]
    IN  IF t.task.state = "closed"
        THEN [dispose(st, w) EXCEPT !.effects = @ \cup {Effect(w, "dispose", NoParams)}]
        ELSE IF updateReturns(t)
        THEN LET running == t.task.state = "running" /\ t.task.terminal # NoRemote
             IN  [st EXCEPT !.widgets[w].missed = running,
                            !.effects = @ \cup
                                {Effect(w, IF running THEN "busy" ELSE "idle", NoParams)}]
        ELSE IF ~validateId(t.terminalId)
        THEN start(st, w)
        ELSE attachToTask(st, w, [terminalId |-> t.terminalId,
                                  remoteTerminal |-> t.task.terminal])

\* terminal.applyTask = updated => { task = updated; return update() }
applyTask(st, w, updated) ==
    update([st EXCEPT !.widgets[w].task = updated], w)

RECURSIVE updateTerminalsFrom(_, _, _)
\* the for loop of updateTerminals from index i on
updateTerminalsFrom(st, tasks, i) ==
    IF i > Len(tasks) THEN st
    ELSE LET id == toTerminalId(tasks[i].id)
             terminal == st.taskTerminals[id]
         IN  IF terminal = 0
             THEN updateTerminalsFrom(st, tasks, i + 1)
             ELSE updateTerminalsFrom(applyTask(st, terminal, tasks[i]), tasks, i + 1)

updateTerminals(st, tasks) == updateTerminalsFrom(st, tasks, 1)

-----------------------------------------------------------------------------
(* The update queue *)

\* a callback chained on pendingInitializeLayout.promise alone
QueueReadyNoChain(entry) == pendingInitializeLayout

\* a callback chained on a queue that starts out resolved
QueueReadyNoLayout(entry) == entry.n = nSettled + 1

\* a queue chained on the promise of onDidInitializeLayout itself
QueueReadyLayoutReturned(entry) ==
    /\ layout.pc = "done"
    /\ entry.n = nSettled + 1

\* this.updateQueue = this.updateQueue.then(update, update): the callback of the
\* n-th batch runs when the promise before it has settled, which is
\* pendingInitializeLayout.promise for the first and the (n-1)-th batch otherwise
QueueReady(entry) ==
    /\ pendingInitializeLayout
    /\ entry.n = nSettled + 1

RemoveAt(q, k) == [j \in 1..(Len(q) - 1) |-> IF j < k THEN q[j] ELSE q[j + 1]]

\* queue(update): the callback is chained behind the current tail
queue(q, n, updated) == Append(q, [n |-> n, updated |-> updated])

\* a deferred that takes every value it is resolved with
resolveOverwrites(deferred, value) == [resolved |-> TRUE, value |-> value]

\* this.pendingInitialTasks.resolve(updated): a promise is resolved once
resolve(deferred, value) ==
    IF deferred.resolved THEN deferred
    ELSE [resolved |-> TRUE, value |-> value]

\* server.setClient({ onDidChange: ({ updated }) => { ... } })
onDidChange(updated) ==
    /\ nDelivered < MaxSnapshots
    /\ nDelivered' = nDelivered + 1
    /\ pendingInitialTasks' = resolve(pendingInitialTasks, updated)
    /\ updateQueue' = queue(updateQueue, nDelivered + 1, updated)
    /\ effects' = {}
    /\ UNCHANGED <<widgets, taskTerminals, pendingInitializeLayout, nSettled,
                   lastApplied, layout, nFailures, presentationOf>>
    /\ UNCHANGED idVars

\* a chained callback () => this.updateTerminals(updated) runs
RunUpdate(k) ==
    /\ k \in 1..Len(updateQueue)
    /\ QueueReady(updateQueue[k])
    /\ LET st == updateTerminals(Store(widgets, taskTerminals, {}),
                                 updateQueue[k].updated)
       IN  /\ widgets' = st.widgets
           /\ taskTerminals' = st.taskTerminals
           /\ effects' = st.effects
    /\ updateQueue' = RemoveAt(updateQueue, k)
    /\ nSettled' = nSettled + 1
    /\ lastApplied' = updateQueue[k].n
    /\ UNCHANGED <<pendingInitialTasks, pendingInitializeLayout, nDelivered, layout,
                   nFailures, presentationOf>>
    /\ UNCHANGED idVars

-----------------------------------------------------------------------------
(* onDidInitializeLayout *)

\* this.terminals.all: the terminal widgets that exist
allTerminals(ws) == { w \in 1..Len(ws) : ~ws[w].disposed }

\* the check of the fallback made for task terminals only
noTerminalTaskOnly(ws) == { w \in allTerminals(ws) : is(ws[w]) } = {}

\* if (!this.terminals.all.length)
noTerminal(ws) == allTerminals(ws) = {}

RECURSIVE layoutLoopAborts(_, _, _, _, _)
\* the loop without try and catch: the TypeError ends it
layoutLoopAborts(tt, tasks, i, ref, errors) ==
    IF i > Len(tasks)
    THEN [pc |-> "end", idx |-> i, ref |-> ref, errors |-> errors]
    ELSE LET task == tasks[i]
             terminal == tt[toTerminalId(task.id)]
         IN  IF task.state = "closed"
             THEN layoutLoopAborts(tt, tasks, i + 1, ref, errors)
             ELSE IF terminal # 0
             THEN layoutLoopAborts(tt, tasks, i + 1, terminal, errors)
             ELSE IF ~task.presentation.present
             THEN [pc |-> "end", idx |-> i, ref |-> ref, errors |-> errors + 1]
             ELSE [pc |-> "awaitNew", idx |-> i, ref |-> ref, errors |-> errors]

RECURSIVE layoutLoop(_, _, _, _, _)
\* the for loop of onDidInitializeLayout from index i on, up to its next await:
\* pc "awaitNew" when newTerminal was called for tasks[idx], "end" after the loop
layoutLoop(tt, tasks, i, ref, errors) ==
    IF i > Len(tasks)
    THEN [pc |-> "end", idx |-> i, ref |-> ref, errors |-> errors]
    ELSE LET task == tasks[i]
             terminal == tt[toTerminalId(task.id)]
         IN  IF task.state = "closed"
             THEN layoutLoop(tt, tasks, i + 1, ref, errors)
             ELSE IF terminal # 0
             THEN layoutLoop(tt, tasks, i + 1, terminal, errors)
             ELSE IF ~task.presentation.present
             \* task.presentation!.name throws a TypeError, caught and logged
             THEN layoutLoop(tt, tasks, i + 1, ref, errors + 1)
             ELSE [pc |-> "awaitNew", idx |-> i, ref |-> ref, errors |-> errors]

\* the loop runs on from index i; after it pendingInitializeLayout is resolved
\* and, when there is no terminal at all, newTerminal({}) is awaited
LayoutRun(tt, ws, tasks, i, ref, errors) ==
    LET r == layoutLoop(tt, tasks, i, ref, errors)
    IN  /\ layout' = [pc |-> IF r.pc = "awaitNew" THEN "awaitNew"
                             ELSE IF noTerminal(ws) THEN "awaitDefault" ELSE "done",
                      tasks |-> tasks, idx |-> r.idx, ref |-> r.ref,
                      errors |-> r.errors]
        /\ pendingInitializeLayout' = (r.pc = "end")

\* the UI shell calls onDidInitializeLayout, which awaits pendingInitialTasks
onDidInitializeLayout ==
    /\ layout.pc = "idle"
    /\ layout' = [layout EXCEPT !.pc = "awaitTasks"]
    /\ effects' = {}
    /\ UNCHANGED <<widgets, taskTerminals, pendingInitialTasks, pendingInitializeLayout,
                   updateQueue, nDelivered, nSettled, lastApplied, nFailures,
                   presentationOf>>
    /\ UNCHANGED idVars

\* const tasks = await this.pendingInitialTasks.promise, and the loop up to its
\* first await
LayoutTasks ==
    /\ layout.pc = "awaitTasks"
    /\ pendingInitialTasks.resolved
    /\ LayoutRun(taskTerminals, widgets, pendingInitialTasks.value, 1, 0, 0)
    /\ effects' = {}
    /\ UNCHANGED <<widgets, taskTerminals, pendingInitialTasks, updateQueue, nDelivered,
                   nSettled, lastApplied, nFailures, presentationOf>>
    /\ UNCHANGED idVars

\* this.terminals.activateTerminal(terminal, { ref, area, mode })
activateTerminal(terminal, ref, task) ==
    [terminal EXCEPT !.ref = ref,
                     !.area = IF task.presentation.openIn # ""
                              THEN task.presentation.openIn ELSE "bottom",
                     !.mode = IF task.presentation.openMode # ""
                              THEN task.presentation.openMode ELSE "tab-after"]

\* await this.terminals.newTerminal({ id, kind: 'gitpod-task', ... }) returns the
\* widget, which is placed; the loop goes on with the next task
NewTerminalResolves ==
    /\ layout.pc = "awaitNew"
    /\ LET task == layout.tasks[layout.idx]
           fresh == [NewWidget(toTerminalId(task.id), "gitpod-task")
                        EXCEPT !.origin = "layout"]
           st == onWillCreateWidget(Store(widgets, taskTerminals, {}),
                                    activateTerminal(fresh, layout.ref, task))
       IN  /\ widgets' = st.widgets
           /\ taskTerminals' = st.taskTerminals
           /\ LayoutRun(st.taskTerminals, st.widgets, layout.tasks, layout.idx + 1,
                        Len(st.widgets), layout.errors)
    /\ effects' = {}
    /\ UNCHANGED <<pendingInitialTasks, updateQueue, nDelivered, nSettled, lastApplied,
                   nFailures, presentationOf>>
    /\ UNCHANGED idVars

\* newTerminal rejects: catch (e) { console.error(...) }, next task
NewTerminalRejects ==
    /\ layout.pc = "awaitNew"
    /\ LayoutRun(taskTerminals, widgets, layout.tasks, layout.idx + 1, layout.ref,
                 layout.errors + 1)
    /\ effects' = {}
    /\ UNCHANGED <<widgets, taskTerminals, pendingInitialTasks, updateQueue, nDelivered,
                   nSettled, lastApplied, nFailures, presentationOf>>
    /\ UNCHANGED idVars

\* const terminal = await this.terminals.newTerminal({}); terminal.start();
\* this.terminals.open(terminal)
DefaultTerminalResolves ==
    /\ layout.pc = "awaitDefault"
    /\ LET fresh == [NewWidget(<<>>, "terminal")
                        EXCEPT !.origin = "default", !.started = TRUE, !.opened = TRUE]
           st == onWillCreateWidget(Store(widgets, taskTerminals, {}), fresh)
       IN  /\ widgets' = st.widgets
           /\ taskTerminals' = st.taskTerminals
    /\ layout' = [layout EXCEPT !.pc = "done"]
    /\ effects' = {}
    /\ UNCHANGED <<pendingInitialTasks, pendingInitializeLayout, updateQueue, nDelivered,
                   nSettled, lastApplied, nFailures, presentationOf>>
    /\ UNCHANGED idVars

\* newTerminal({}) rejects: onDidInitializeLayout's promise rejects
DefaultTerminalRejects ==
    /\ layout.pc = "awaitDefault"
    /\ layout' = [layout EXCEPT !.pc = "failed"]
    /\ effects' = {}
    /\ UNCHANGED <<widgets, taskTerminals, pendingInitialTasks, pendingInitializeLayout,
                   updateQueue, nDelivered, nSettled, lastApplied, nFailures,
                   presentationOf>>
    /\ UNCHANGED idVars

-----------------------------------------------------------------------------
(* The collaborators: widget manager, terminal widget, task server, user *)

External(ws) == { w \in 1..Len(ws) : ws[w].origin = "external" }

\* the widget manager creates a terminal widget for somebody else (a restored
\* layout, a user command) and fires onWillCreateWidget
CreateWidget(id, kind) ==
    /\ Cardinality(External(widgets)) < MaxExternal
    /\ LET st == onWillCreateWidget(Store(widgets, taskTerminals, {}),
                                    NewWidget(id, kind))
       IN  /\ widgets' = st.widgets
           /\ taskTerminals' = st.taskTerminals
    /\ effects' = {}
    /\ UNCHANGED <<pendingInitialTasks, pendingInitializeLayout, updateQueue, nDelivered,
                   nSettled, lastApplied, layout, nFailures, presentationOf>>
    /\ UNCHANGED idVars

\* somebody else calls terminal.start(): the restoreState of a widget the layout
\* restorer created, once, on a widget that has not opened
RestoreStart(w) ==
    /\ w \in 1..Len(widgets)
    /\ is(widgets[w]) /\ widgets[w].origin = "external"
    /\ ~widgets[w].disposed /\ ~widgets[w].restored
    /\ ~validateId(widgets[w].terminalId)
    /\ LET st == start(Store([widgets EXCEPT ![w].restored = TRUE], taskTerminals, {}),
                       w)
       IN  /\ widgets' = st.widgets
           /\ effects' = st.effects
    /\ UNCHANGED <<taskTerminals, pendingInitialTasks, pendingInitializeLayout,
                   updateQueue, nDelivered, nSettled, lastApplied, layout, nFailures,
                   presentationOf>>
    /\ UNCHANGED idVars

\* terminal.onDidOpen / onDidOpenFailure listeners, in the order they were added:
\* () => starting = false, then update
onDidOpen(st, w) ==
    update([st EXCEPT !.widgets[w].starting = FALSE], w)

\* a start in flight ends with a valid terminalId: onDidOpen fires
StartOpens(w) ==
    /\ w \in 1..Len(widgets)
    /\ widgets[w].startInFlight > 0
    /\ LET st == onDidOpen(Store([widgets EXCEPT ![w].startInFlight = @ - 1,
                                                 ![w].terminalId = w],
                                 taskTerminals, {Effect(w, "opened", NoParams)}), w)
       IN  /\ widgets' = st.widgets
           /\ taskTerminals' = st.taskTerminals
           /\ effects' = st.effects
    /\ UNCHANGED <<pendingInitialTasks, pendingInitializeLayout, updateQueue, nDelivered,
                   nSettled, lastApplied, layout, nFailures, presentationOf>>
    /\ UNCHANGED idVars

\* a start in flight ends without a valid terminalId: onDidOpenFailure fires
StartFails(w) ==
    /\ w \in 1..Len(widgets)
    /\ widgets[w].startInFlight > 0
    /\ nFailures < MaxFailures
    /\ nFailures' = nFailures + 1
    /\ LET st == onDidOpen(Store([widgets EXCEPT ![w].startInFlight = @ - 1,
                                                 ![w].terminalId = InvalidId],
                                 taskTerminals, {Effect(w, "openFailed", NoParams)}), w)
       IN  /\ widgets' = st.widgets
           /\ taskTerminals' = st.taskTerminals
           /\ effects' = st.effects
    /\ UNCHANGED <<pendingInitialTasks, pendingInitializeLayout, updateQueue, nDelivered,
                   nSettled, lastApplied, layout, presentationOf>>
    /\ UNCHANGED idVars

\* the promise of `return start(id)` rejects before the widget has fired
\* onDidOpen or onDidOpenFailure (the backend terminal could not be created):
\* the wrapper has put no handler on it, so no listener of this file runs
StartRejects(w) ==
    /\ w \in 1..Len(widgets)
    /\ widgets[w].startInFlight > 0
    /\ nFailures < MaxFailures
    /\ nFailures' = nFailures + 1
    /\ widgets' = [widgets EXCEPT ![w].startInFlight = @ - 1]
    /\ effects' = {Effect(w, "startRejected", NoParams)}
    /\ UNCHANGED <<taskTerminals, pendingInitialTasks, pendingInitializeLayout,
                   updateQueue, nDelivered, nSettled, lastApplied, layout, presentationOf>>
    /\ UNCHANGED idVars

\* this.server.attach(params).then(() => attachingToTask = false)
AttachResolves(w) ==
    /\ w \in 1..Len(widgets)
    /\ widgets[w].attachInFlight > 0
    /\ widgets' = [widgets EXCEPT ![w].attachInFlight = @ - 1,
                                  ![w].attachingToTask = FALSE]
    /\ effects' = {Effect(w, "attachResolved", NoParams)}
    /\ UNCHANGED <<taskTerminals, pendingInitialTasks, pendingInitializeLayout,
                   updateQueue, nDelivered, nSettled, lastApplied, layout, nFailures,
                   presentationOf>>
    /\ UNCHANGED idVars

\* .catch(e => { attachingToTask = false; throw e })
AttachRejects(w) ==
    /\ w \in 1..Len(widgets)
    /\ widgets[w].attachInFlight > 0
    /\ widgets' = [widgets EXCEPT ![w].attachInFlight = @ - 1,
                                  ![w].attachingToTask = FALSE]
    /\ effects' = {Effect(w, "attachRejected", NoParams)}
    /\ UNCHANGED <<taskTerminals, pendingInitialTasks, pendingInitializeLayout,
                   updateQueue, nDelivered, nSettled, lastApplied, layout, nFailures,
                   presentationOf>>
    /\ UNCHANGED idVars

\* the listener without the check of task.terminal
onTerminalDidCloseAnyTerminal(st, w) ==
    LET task == st.widgets[w].task
    IN  IF task # NoTask /\ task.state # "closed"
        THEN [st EXCEPT !.widgets[w].closeInFlight = @ + 1,
                        !.effects = @ \cup
                 {Effect(w, "closeNotify", [NoParams EXCEPT !.remoteTerminal = task.terminal])}]
        ELSE st

\* terminal.onTerminalDidClose(() => { if (task && task.terminal && task.state !==
\* CLOSED) fetch(.../terminal/close/ + task.terminal) })
onTerminalDidClose(st, w) ==
    LET task == st.widgets[w].task
    IN  IF task # NoTask /\ task.terminal # NoRemote /\ task.state # "closed"
        THEN [st EXCEPT !.widgets[w].closeInFlight = @ + 1,
                        !.effects = @ \cup
                 {Effect(w, "closeNotify", [NoParams EXCEPT !.remoteTerminal = task.terminal])}]
        ELSE st

\* the fetch of line 129 is answered or fails: nothing waits for its promise
CloseNotifyEnds(w, ok) ==
    /\ w \in 1..Len(widgets)
    /\ widgets[w].closeInFlight > 0
    /\ widgets' = [widgets EXCEPT ![w].closeInFlight = @ - 1]
    /\ effects' = {Effect(w, IF ok THEN "closeNotified" ELSE "closeNotifyFailed", NoParams)}
    /\ UNCHANGED <<taskTerminals, pendingInitialTasks, pendingInitializeLayout,
                   updateQueue, nDelivered, nSettled, lastApplied, layout, nFailures,
                   presentationOf>>
    /\ UNCHANGED idVars

\* the user closes a terminal: onTerminalDidClose fires and the widget is disposed
UserClose(w) ==
    /\ w \in 1..Len(widgets)
    /\ ~widgets[w].disposed
    /\ LET st0 == Store(widgets, taskTerminals, {})
           st == dispose(IF is(widgets[w]) THEN onTerminalDidClose(st0, w) ELSE st0, w)
       IN  /\ widgets' = st.widgets
           /\ taskTerminals' = st.taskTerminals
           /\ effects' = st.effects
    /\ UNCHANGED <<pendingInitialTasks, pendingInitializeLayout, updateQueue, nDelivered,
                   nSettled, lastApplied, layout, nFailures, presentationOf>>
    /\ UNCHANGED idVars

-----------------------------------------------------------------------------
(* The component *)

InitCore ==
    /\ widgets = <<>>
    /\ taskTerminals = [i \in TerminalIds |-> 0]
    /\ pendingInitialTasks = [resolved |-> FALSE, value |-> <<>>]
    /\ pendingInitializeLayout = FALSE
    /\ updateQueue = <<>>
    /\ nDelivered = 0
    /\ nSettled = 0
    /\ lastApplied = 0
    /\ layout = [pc |-> "idle", tasks |-> <<>>, idx |-> 0, ref |-> 0, errors |-> 0]
    /\ nFailures = 0
    /\ effects = {}

Init ==
    /\ InitCore
    /\ presentationOf \in OneTask
    /\ idIn = <<>> /\ idTerm = <<>> /\ idOut = <<>>

Next ==
    \/ \E updated \in Snapshots : onDidChange(updated)
    \/ \E k \in 1..MaxSnapshots : RunUpdate(k)
    \/ onDidInitializeLayout
    \/ LayoutTasks
    \/ NewTerminalResolves
    \/ NewTerminalRejects
    \/ DefaultTerminalResolves
    \/ DefaultTerminalRejects
    \/ \E i \in Known : CreateWidget(toTerminalId(i), "gitpod-task")
    \/ CreateWidget(<<>>, "terminal")
    \/ \E w \in 1..Len(widgets) : RestoreStart(w)
    \/ \E w \in 1..Len(widgets) : StartOpens(w)
    \/ \E w \in 1..Len(widgets) : StartFails(w)
    \/ \E w \in 1..Len(widgets) : StartRejects(w)
    \/ \E w \in 1..Len(widgets) : AttachResolves(w)
    \/ \E w \in 1..Len(widgets) : AttachRejects(w)
    \/ \E w \in 1..Len(widgets) : UserClose(w)
    \/ \E w \in 1..Len(widgets), ok \in BOOLEAN : CloseNotifyEnds(w, ok)

Spec == Init /\ [][Next]_vars

\* a settled promise runs its reactions: a callback whose turn has come is not
\* put off for ever
SpecFair == Spec /\ WF_vars(\E k \in 1..MaxSnapshots : RunUpdate(k))

\* the same component in a workspace of two tasks
InitTwo ==
    /\ InitCore
    /\ presentationOf \in TwoTasks
    /\ idIn = <<>> /\ idTerm = <<>> /\ idOut = <<>>

\* the steps of the layout and of the queue: no start or attach in flight ends
NextTwo ==
    \/ \E updated \in FullSnapshots : onDidChange(updated)
    \/ \E k \in 1..MaxSnapshots : RunUpdate(k)
    \/ onDidInitializeLayout
    \/ LayoutTasks
    \/ NewTerminalResolves
    \/ NewTerminalRejects
    \/ DefaultTerminalResolves
    \/ DefaultTerminalRejects
    \/ \E i \in Known : CreateWidget(toTerminalId(i), "gitpod-task")
    \/ CreateWidget(<<>>, "terminal")
    \/ \E w \in 1..Len(widgets) : UserClose(w)

SpecTwo == InitTwo /\ [][NextTwo]_vars

-----------------------------------------------------------------------------
(* The identifier helpers on their own: two task ids are drawn, turned into
   terminal ids, and the task ids are read back from widgets carrying them *)

IdChars == {"a", "b", ":"}

RECURSIVE SeqsUpTo(_)
\* the sequences over IdChars of length at most n
SeqsUpTo(n) ==
    IF n = 0 THEN {<<>>}
    ELSE LET shorter == SeqsUpTo(n - 1)
         IN  shorter \cup { Append(q, c) : q \in shorter, c \in IdChars }

Ids == SeqsUpTo(MaxIdLen)

InitIds ==
    /\ InitCore
    /\ presentationOf \in OneTask
    /\ idIn \in Ids \X Ids
    /\ idTerm = <<>>
    /\ idOut = <<>>

\* const id = GitpodTaskTerminalWidget.toTerminalId(task.id)
MakeTerminalIds ==
    /\ idTerm = <<>>
    /\ idTerm' = <<toTerminalId(idIn[1]), toTerminalId(idIn[2])>>
    /\ UNCHANGED <<idIn, idOut>>
    /\ UNCHANGED coreVars

\* GitpodTaskTerminalWidget.getTaskId(terminal) on widgets with these ids
ReadTaskIds ==
    /\ idTerm # <<>>
    /\ idOut = <<>>
    /\ idOut' = <<getTaskId(NewWidget(idTerm[1], "gitpod-task")),
                  getTaskId(NewWidget(idTerm[2], "gitpod-task"))>>
    /\ UNCHANGED <<idIn, idTerm>>
    /\ UNCHANGED coreVars

NextIds == MakeTerminalIds \/ ReadTaskIds

SpecIds == InitIds /\ [][NextIds]_vars

-----------------------------------------------------------------------------
(* Properties *)

W == 1..Len(widgets)

\* handler effects of the latest step on widget w
Did(ev, w, did) == \E e \in ev : e.w = w /\ e.did = did

\* the step applies a batch
Applies == nSettled' # nSettled

\* the for loop of onDidInitializeLayout has been left
LoopDone == layout.pc \in {"awaitDefault", "done", "failed"}

\* C1: batches are applied in arrival order, one at a time: whenever a batch is
\* applied it is the oldest one that has not settled, so every batch delivered
\* before it has settled and every batch still waiting was delivered after it.
C1_BatchesInArrivalOrder ==
    [][Applies =>
          /\ nSettled' = nSettled + 1
          /\ lastApplied' = nSettled + 1
          /\ \A k \in 1..Len(updateQueue') : updateQueue'[k].n > lastApplied']_vars

\* two batches were waiting together and both have been applied
C1_Witness ==
    /\ nSettled = 2
    /\ lastApplied = 2
    /\ \E w \in W : widgets[w].task # NoTask

\* C2: while onDidInitializeLayout has not left its loop (not called, waiting for
\* the first snapshot, or waiting for newTerminal) no batch has been applied and
\* no terminal has been given a task, however many snapshots were delivered.
C2_LayoutBeforeUpdates ==
    ~LoopDone =>
        /\ nSettled = 0
        /\ \A w \in W : widgets[w].task = NoTask

\* a snapshot that was delivered before the loop ended has been applied to a
\* surface the loop created, with a later snapshot still waiting
C2_Witness ==
    /\ LoopDone
    /\ nSettled = 1
    /\ Len(updateQueue) = 1
    /\ \E w \in W : widgets[w].origin = "layout" /\ widgets[w].task # NoTask

\* C3: update never calls dispose on a surface that is already disposed, so a
\* surface whose task is CLOSED is disposed exactly once.
C3_DisposedOnce ==
    [][\A w \in W : Did(effects', w, "dispose") => ~widgets[w].disposed]_vars

\* the step applies a snapshot that takes w's task from a state other than
\* RUNNING to RUNNING with a remote terminal, the surface having no valid id
BecomesRunningUnopened(w) ==
    /\ Applies
    /\ widgets[w].task.state # "running"
    /\ widgets'[w].task.state = "running"
    /\ widgets'[w].task.terminal # NoRemote
    /\ ~validateId(widgets[w].terminalId)

\* C4: a surface never has two starts in flight; the snapshot that makes its
\* task RUNNING while it has no valid terminal id leaves exactly one start in
\* flight, and a snapshot applied while a start is in flight issues none.
C4_ExactlyOneStart ==
    /\ [](\A w \in W : widgets[w].startInFlight <= 1)
    /\ [][\A w \in W :
            /\ BecomesRunningUnopened(w) =>
                   widgets'[w].startInFlight = 1 /\ widgets'[w].starting
            /\ (Applies /\ widgets[w].startInFlight > 0) =>
                   ~Did(effects', w, "start")]_vars

\* a second snapshot was applied to a surface whose start is still in flight
C4_Witness ==
    \E w \in W :
        /\ widgets[w].startInFlight = 1
        /\ widgets[w].task.state = "running"
        /\ nSettled = 2
        /\ Did(effects, w, "busy")

C6_NoRepeatedAttach ==
    [][\A w \in W :
          ( /\ Applies
            /\ widgets[w].task.state = "running"
            /\ widgets[w].task.terminal # NoRemote
            /\ widgets'[w].task = widgets[w].task
            /\ validateId(widgets[w].terminalId)
            /\ ~widgets[w].starting )
          => ~Did(effects', w, "attach")]_vars

\* the step in which onDidInitializeLayout leaves its loop
LoopEnds == ~LoopDone /\ LoopDone'

\* the terminals onDidInitializeLayout created for tasks, and its default terminal
ByLayout(ws) == { w \in 1..Len(ws) : ws[w].origin = "layout" }
Defaults(ws) == { w \in 1..Len(ws) : ws[w].origin = "default" }

\* C7: when the loop of onDidInitializeLayout ends, every task of the first
\* snapshot that is not CLOSED has a bound, live surface with the derived id;
\* the surfaces the loop created are task terminals of such tasks, one per id,
\* placed in the task's area and mode or in 'bottom' and 'tab-after'.
C7_EveryOpenTaskBound ==
    [][LoopEnds =>
          /\ \A i \in 1..Len(layout'.tasks) :
                 layout'.tasks[i].state # "closed" =>
                    LET w == taskTerminals'[toTerminalId(layout'.tasks[i].id)]
                    IN  /\ w # 0
                        /\ widgets'[w].id = toTerminalId(layout'.tasks[i].id)
                        /\ ~widgets'[w].disposed
          /\ \A w \in ByLayout(widgets') :
                 /\ is(widgets'[w])
                 /\ widgets'[w].area \in {"bottom", "right"}
                 /\ widgets'[w].mode \in {"tab-after", "split-right"}
                 /\ \E i \in 1..Len(layout'.tasks) :
                        /\ layout'.tasks[i].state # "closed"
                        /\ widgets'[w].id = toTerminalId(layout'.tasks[i].id)
                 /\ \A v \in ByLayout(widgets') :
                        widgets'[v].id = widgets'[w].id => v = w]_vars

NoSeparator(id) == \A j \in 1..Len(id) : id[j] # ":"

\* C9: getTaskId gives back every task id without ':' from the terminal id
\* toTerminalId made of it, and two different task ids never get the same
\* terminal id.
C9_RoundTrip ==
    /\ idOut # <<>> =>
           \A k \in 1..2 : NoSeparator(idIn[k]) => idOut[k] = idIn[k]
    /\ (idTerm # <<>> /\ idIn[1] # idIn[2]) => idTerm[1] # idTerm[2]

\* two different ids, the first without ':', have made the round trip
C9_Witness ==
    /\ idOut # <<>>
    /\ Len(idIn[1]) >= 2
    /\ NoSeparator(idIn[1])
    /\ idIn[1] # idIn[2]
    /\ idOut[1] = idIn[1]

\* a start or an attach of w ends in this step
Completes(w) ==
    \/ widgets'[w].startInFlight < widgets[w].startInFlight
    \/ widgets'[w].attachInFlight < widgets[w].attachInFlight

\* C10: a snapshot reporting CLOSED, applied while a start or an attach is in
\* flight, disposes the surface in that step; when the start or attach of a
\* surface disposed for its CLOSED task ends, the handlers make no call on the
\* surface (no dispose, start or attach) and throw nothing.
C10_ClosedWins ==
    [][\A w \in W :
          /\ ( /\ Applies
               /\ widgets[w].startInFlight + widgets[w].attachInFlight > 0
               /\ widgets[w].task.state # "closed"
               /\ widgets'[w].task.state = "closed" )
             => widgets'[w].disposed /\ Did(effects', w, "dispose")
          /\ ( /\ widgets[w].disposed
               /\ widgets[w].task.state = "closed"
               /\ Completes(w) )
             => \A d \in {"dispose", "start", "attach", "throw"} :
                    ~Did(effects', w, d)]_vars

\* C11: a guard flag is set only while its operation is in flight: a surface
\* with no start outstanding is not starting and a surface with no attach
\* outstanding is not attaching, also after the start or the attach has failed.
C11_FlagsOnlyInFlight ==
    \A w \in W :
        /\ widgets[w].startInFlight = 0 => ~widgets[w].starting
        /\ widgets[w].attachInFlight = 0 => ~widgets[w].attachingToTask

\* a start or an attach of w fails in this step
Fails(ev, w) ==
    \/ Did(ev, w, "openFailed")
    \/ Did(ev, w, "startRejected")
    \/ Did(ev, w, "attachRejected")

\* C12: the step in which a start or an attach of a surface fails issues no
\* start and no attach on it: the open-failure signal, the rejection of the
\* start and the rejection of the attach cause no retry.
C12_NoRetryOnItsOwn ==
    [][\A w \in W :
          Fails(effects', w) =>
              ~Did(effects', w, "start") /\ ~Did(effects', w, "attach")]_vars

Ends(ev, w) ==
    \/ Did(ev, w, "opened")
    \/ Did(ev, w, "attachResolved")
    \/ Fails(ev, w)

\* C14: when the start or the attach of a live surface ends, and an evaluation
\* made while it was in flight had found the task RUNNING with a remote terminal
\* and returned without a call, the step in which it ends issues the attach if
\* the surface then has a valid terminal id and the start if it has none.
C14_NoLostUpdate ==
    [][\A w \in W :
          ( /\ widgets[w].missed
            /\ ~widgets[w].disposed
            /\ Ends(effects', w)
            /\ widgets'[w].task.state = "running"
            /\ widgets'[w].task.terminal # NoRemote )
          => IF validateId(widgets'[w].terminalId)
             THEN Did(effects', w, "attach")
             ELSE Did(effects', w, "start")]_vars

\* update runs for w in this step: for a task of the batch applied, or as the
\* listener of the open or open-failure signal
Evaluated(w) ==
    /\ widgets'[w].restored = widgets[w].restored
    /\ \E d \in {"dispose", "idle", "busy", "start", "attach", "throw"} :
           Did(effects', w, d)

\* the value of starting that update finds: the listener of line 85 or 86 has
\* run before update when a signal made it run
StartingFound(w) == Applies /\ widgets[w].starting

IssuesNothing(w) ==
    /\ \A d \in {"dispose", "start", "attach", "throw"} : ~Did(effects', w, d)
    /\ widgets'[w].starting = StartingFound(w)
    /\ widgets'[w].attachingToTask = widgets[w].attachingToTask
    /\ widgets'[w].disposed = widgets[w].disposed

StartsOrAttachesById(w) ==
    /\ Did(effects', w, "start") <=> ~validateId(widgets'[w].terminalId)
    /\ Did(effects', w, "attach") <=> validateId(widgets'[w].terminalId)
    /\ ~Did(effects', w, "dispose")

RunningWithTerminal(t) == t.state = "running" /\ t.terminal # NoRemote

\* C15 as stated: an evaluation that finds no task, a task neither RUNNING nor
\* CLOSED, or a task without remote terminal does nothing; one that finds the
\* task RUNNING with a remote terminal and no flag set starts or attaches by
\* the surface's terminal id.
C15_StateTable ==
    [][\A w \in W : Evaluated(w) =>
          LET t == widgets'[w].task
          IN  /\ ( \/ t = NoTask
                   \/ t.state \notin {"running", "closed"}
                   \/ t.terminal = NoRemote ) => IssuesNothing(w)
              /\ ( /\ RunningWithTerminal(t)
                   /\ ~StartingFound(w)
                   /\ ~widgets[w].attachingToTask ) => StartsOrAttachesById(w)]_vars

\* C15, amended: a CLOSED task means dispose whether or not it has a remote
\* terminal; an evaluation does nothing when it finds no task, a task neither
\* RUNNING nor CLOSED, or a RUNNING task without remote terminal; it starts or
\* attaches by the surface's terminal id when the task is RUNNING with a remote
\* terminal and no flag is set.
C15_StateTableClosedFirst ==
    [][\A w \in W : Evaluated(w) =>
          LET t == widgets'[w].task
          IN  /\ t.state = "closed" =>
                     /\ Did(effects', w, "dispose")
                     /\ widgets'[w].disposed
                     /\ ~Did(effects', w, "start") /\ ~Did(effects', w, "attach")
              /\ ( \/ t = NoTask
                   \/ t.state \notin {"running", "closed"}
                   \/ (t.state = "running" /\ t.terminal = NoRemote) )
                 => IssuesNothing(w)
              /\ ( /\ RunningWithTerminal(t)
                   /\ ~StartingFound(w)
                   /\ ~widgets[w].attachingToTask ) => StartsOrAttachesById(w)]_vars

\* a batch has just given a surface a CLOSED task without remote terminal and
\* the surface was disposed
C15_Witness ==
    \E w \in W :
        /\ widgets[w].task.state = "closed"
        /\ widgets[w].task.terminal = NoRemote
        /\ widgets[w].disposed
        /\ Did(effects, w, "dispose")

\* the batch the step applies
AppliedBatch ==
    LET k == CHOOSE j \in 1..Len(updateQueue) : updateQueue[j].n = nSettled + 1
    IN  updateQueue[k].updated

\* the tasks of the first snapshot that are not CLOSED and for whose id no
\* terminal was ever created
NeverCreated(ws, tasks) ==
    { i \in 1..Len(tasks) :
        /\ tasks[i].state # "closed"
        /\ \A w \in 1..Len(ws) : ws[w].id # toTerminalId(tasks[i].id) }

C18_IndependentBindings ==
    /\ [](\A id \in DOMAIN taskTerminals :
             taskTerminals[id] # 0 =>
                 /\ ~widgets[taskTerminals[id]].disposed
                 /\ widgets[taskTerminals[id]].id = id)
    /\ [][\A id \in DOMAIN taskTerminals :
             /\ ( /\ Len(widgets') > Len(widgets)
                  /\ is(widgets'[Len(widgets')])
                  /\ widgets'[Len(widgets')].id = id )
                => taskTerminals'[id] = Len(widgets')
             /\ ( /\ taskTerminals[id] # 0
                  /\ ~widgets'[taskTerminals[id]].disposed
                  /\ Len(widgets') = Len(widgets) )
                => taskTerminals'[id] = taskTerminals[id]]_vars

\* the user closes w in this step: w is disposed, and not by update
UserCloses(w) ==
    /\ ~widgets[w].disposed
    /\ widgets'[w].disposed
    /\ ~Did(effects', w, "dispose")

GuardUnchanged(w) ==
    /\ widgets'[w].starting = widgets[w].starting
    /\ widgets'[w].attachingToTask = widgets[w].attachingToTask
    /\ widgets'[w].task = widgets[w].task

\* C19: when the user closes a terminal, the close notification is sent exactly
\* when it is a task terminal whose stored task exists, has a remote terminal
\* and is not CLOSED, and it names that remote terminal; the step changes no
\* flag and no stored task and removes no entry of another id; the answer to the
\* notification, or its failure, changes no flag, no stored task and no entry.
C19_CloseNotification ==
    /\ [][\A w \in W : UserCloses(w) =>
             LET task == widgets[w].task
             IN  /\ Did(effects', w, "closeNotify") <=>
                        ( /\ is(widgets[w])
                          /\ task # NoTask
                          /\ task.terminal # NoRemote
                          /\ task.state # "closed" )
                 /\ \A e \in effects' :
                        (e.w = w /\ e.did = "closeNotify") =>
                            e.params.remoteTerminal = task.terminal
                 /\ \A v \in W : GuardUnchanged(v)
                 /\ \A id \in DOMAIN taskTerminals :
                        id # widgets[w].id => taskTerminals'[id] = taskTerminals[id]]_vars
    /\ [][\A w \in W :
             (Did(effects', w, "closeNotified") \/ Did(effects', w, "closeNotifyFailed")) =>
                 /\ \A v \in W : GuardUnchanged(v) /\ widgets'[v].disposed = widgets[v].disposed
                 /\ taskTerminals' = taskTerminals]_vars

\* the notification sent for a closed terminal whose start was in flight has failed
C19_Witness ==
    \E w \in W :
        /\ Did(effects, w, "closeNotifyFailed")
        /\ widgets[w].disposed
        /\ widgets[w].task.state = "running"
        /\ widgets[w].starting

\* the surfaces a batch can touch: those bound to the ids of its tasks
BoundTo(tasks) ==
    { taskTerminals[toTerminalId(tasks[i].id)] : i \in 1..Len(tasks) } \ {0}

\* C20: pendingInitialTasks holds the first snapshot delivered and never
\* changes again; onDidInitializeLayout works on that list, and the surfaces it
\* makes for tasks are those of tasks of that list that are not CLOSED; applying
\* a batch creates no terminal and registers none, and leaves every surface
\* alone that is not bound to the id of one of its tasks, with no call made.
C20_LayoutFromFirstSnapshot ==
    /\ [][(nDelivered = 0 /\ nDelivered' = 1) =>
              /\ pendingInitialTasks'.resolved
              /\ pendingInitialTasks'.value = updateQueue'[Len(updateQueue')].updated]_vars
    /\ [][pendingInitialTasks.resolved => pendingInitialTasks' = pendingInitialTasks]_vars
    /\ [](layout.pc \notin {"idle", "awaitTasks"} =>
             /\ pendingInitialTasks.resolved
             /\ layout.tasks = pendingInitialTasks.value)
    /\ [](\A w \in ByLayout(widgets) :
             \E i \in 1..Len(pendingInitialTasks.value) :
                 /\ pendingInitialTasks.value[i].state # "closed"
                 /\ widgets[w].id = toTerminalId(pendingInitialTasks.value[i].id))
    /\ [][Applies =>
             /\ Len(widgets') = Len(widgets)
             /\ \A id \in DOMAIN taskTerminals :
                    taskTerminals'[id] \in {taskTerminals[id], 0}
             /\ \A w \in W \ BoundTo(AppliedBatch) :
                    /\ widgets'[w] = widgets[w]
                    /\ \A e \in effects' : e.w # w]_vars

\* the first snapshot was empty, a second one with a running task arrived before
\* the layout ran, and the layout has made no surface for the task
C20_Witness ==
    /\ LoopDone
    /\ pendingInitialTasks.value = <<>>
    /\ ByLayout(widgets) = {}
    /\ \E k \in 1..Len(updateQueue) :
           /\ updateQueue[k].n = 2
           /\ Len(updateQueue[k].updated) = 1
           /\ updateQueue[k].updated[1].state = "running"

====
